---- MODULE Spec2Model ----
(***************************************************************************)
(* The virtual filesystem over git trees of package gitcmd: Lstat, Stat,   *)
(* ReadDir, the root listing cache (lsTree) and the parser of `git ls-tree`*)
(* output (lsTreeUncached).                                                *)
(*                                                                         *)
(* The SavedQueryForm component of the web client is the last part: its    *)
(* state, its event handlers and the observable that onSubmit returns.     *)
(*                                                                         *)
(* A Go string is modelled as a sequence of one-byte strings, so that the  *)
(* string functions of the code are computed on the bytes they inspect.    *)
(***************************************************************************)
EXTENDS Integers, Sequences, FiniteSets, TLC

VARIABLES
    world,   \* the behaviour of the git tool, fixed for a whole run
    cache,   \* lsTreeRootCache: <<[key, val]>>, most recently used first
    mu,      \* lsTreeRootCacheMu: 0 when free, else the thread holding it
    thr,     \* per request thread: position, arguments, locals, result
    form     \* the SavedQueryForm component: its state and its submission

vars == <<world, cache, mu, thr, form>>

----------------------------------------------------------------------------
(* Bytes and Go's string functions                                          *)

NUL == "NUL"
TAB == "\t"
LF == "\n"

\* The bytes the model uses, in increasing byte value.
Bytes ==
    <<NUL, TAB, LF, " ", "'", "+", ",", "-", ".", "/",
      "0", "1", "2", "3", "4", "5", "6", "7", "8", "9", ":",
      "a", "b", "c", "d", "e", "f", "g", "h", "i", "j", "k", "l", "m",
      "n", "o", "p", "q", "r", "s", "t", "u", "v", "w", "x", "y", "z">>

Ord(c) == CHOOSE i \in 1..Len(Bytes) : Bytes[i] = c

\* Go's s[from:] and s[:to] (0-based); the caller guards the bounds.
SliceFrom(s, from) == SubSeq(s, from + 1, Len(s))
SliceTo(s, to) == SubSeq(s, 1, to)

\* Go's string < : byte-wise lexicographic, a proper prefix is smaller.
RECURSIVE StrLess(_, _)
StrLess(a, b) ==
    IF b = <<>> THEN FALSE
    ELSE IF a = <<>> THEN TRUE
    ELSE IF a[1] # b[1] THEN Ord(a[1]) < Ord(b[1])
    ELSE StrLess(Tail(a), Tail(b))

HasPrefix(s, p) == Len(s) >= Len(p) /\ SubSeq(s, 1, Len(p)) = p

TrimPrefix(s, p) == IF HasPrefix(s, p) THEN SliceFrom(s, Len(p)) ELSE s

\* strings.IndexByte / strings.LastIndexByte: 0-based, -1 when absent.
IndexByte(s, c) ==
    IF \E i \in 1..Len(s) : s[i] = c
    THEN (CHOOSE i \in 1..Len(s) : s[i] = c /\ \A j \in 1..(i - 1) : s[j] # c) - 1
    ELSE -1

LastIndexByte(s, c) ==
    IF \E i \in 1..Len(s) : s[i] = c
    THEN (CHOOSE i \in 1..Len(s) : s[i] = c /\ \A j \in (i + 1)..Len(s) : s[j] # c) - 1
    ELSE -1

\* bytes.Contains
Contains(s, sub) ==
    \E i \in 0..(Len(s) - Len(sub)) : SubSeq(s, i + 1, i + Len(sub)) = sub

\* strings.SplitN(s, sep, n) for a one-byte sep and n >= 1: at most n pieces,
\* the last one the unsplit remainder.
RECURSIVE SplitN(_, _, _)
SplitN(s, sep, n) ==
    LET i == IndexByte(s, sep) IN
    IF n = 1 \/ i = -1 THEN <<s>>
    ELSE <<SliceTo(s, i)>> \o SplitN(SliceFrom(s, i + 1), sep, n - 1)

\* strings.Split(s, sep): every piece; Split("", sep) is one empty piece.
Split(s, sep) == SplitN(s, sep, Len(s) + 1)

Space == {" ", TAB, LF}

\* strings.TrimSpace / bytes.TrimSpace
RECURSIVE TrimLeftSpace(_)
TrimLeftSpace(s) ==
    IF s # <<>> /\ s[1] \in Space THEN TrimLeftSpace(Tail(s)) ELSE s

RECURSIVE TrimRightSpace(_)
TrimRightSpace(s) ==
    IF s # <<>> /\ s[Len(s)] \in Space
    THEN TrimRightSpace(SliceTo(s, Len(s) - 1)) ELSE s

TrimSpace(s) == TrimRightSpace(TrimLeftSpace(s))

RECURSIVE Join(_, _)
Join(parts, sep) ==
    IF parts = <<>> THEN <<>>
    ELSE IF Len(parts) = 1 THEN parts[1]
    ELSE parts[1] \o sep \o Join(Tail(parts), sep)

Digit(c) == Ord(c) - Ord("0")
IsDigitOf(c, base) == c \in {Bytes[i] : i \in Ord("0")..(Ord("0") + base - 1)}

RECURSIVE DigitsValue(_, _)
DigitsValue(ds, base) ==
    IF ds = <<>> THEN 0
    ELSE DigitsValue(SliceTo(ds, Len(ds) - 1), base) * base + Digit(ds[Len(ds)])

RECURSIVE TrimLeftZeros(_)
TrimLeftZeros(ds) ==
    IF ds # <<>> /\ ds[1] = "0" THEN TrimLeftZeros(Tail(ds)) ELSE ds

\* strconv.ParseInt(s, base, bitSize) for base 8 and 10: an optional sign, then
\* one or more digits of the base.  The range error is decided on the digits
\* (32 bits: eleven octal digits from 20000000000 on; 64 bits: more than 19
\* decimal digits), and the value is computed for numbers below 2^31, which is
\* every number the modelled tool prints.
ParseInt(s, base, bitSize) ==
    LET signed == s # <<>> /\ s[1] \in {"+", "-"}
        neg == s # <<>> /\ s[1] = "-"
        ds == IF signed THEN Tail(s) ELSE s
        sig == TrimLeftZeros(ds)
        tooBig == IF bitSize = 32
                  THEN Len(sig) > 11 \/ (Len(sig) = 11 /\ Digit(sig[1]) >= 2)
                  ELSE Len(sig) > 19
    IN  IF ds = <<>> \/ \E i \in 1..Len(ds) : ~IsDigitOf(ds[i], base)
        THEN [err |-> "syntax", val |-> 0]
        ELSE IF tooBig THEN [err |-> "range", val |-> 0]
        ELSE [err |-> "", val |-> IF neg THEN 0 - DigitsValue(sig, base)
                                         ELSE DigitsValue(sig, base)]

RECURSIVE CleanStack(_, _, _)
CleanStack(comps, rooted, stack) ==
    IF comps = <<>> THEN stack
    ELSE LET c == comps[1] IN
         IF c = <<>> \/ c = <<".">> THEN CleanStack(Tail(comps), rooted, stack)
         ELSE IF c = <<".", ".">>
         THEN IF stack # <<>> /\ stack[Len(stack)] # <<".", ".">>
              THEN CleanStack(Tail(comps), rooted, SliceTo(stack, Len(stack) - 1))
              ELSE IF rooted THEN CleanStack(Tail(comps), rooted, stack)
              ELSE CleanStack(Tail(comps), rooted, Append(stack, c))
         ELSE CleanStack(Tail(comps), rooted, Append(stack, c))

\* filepath.Clean: the shortest equivalent path; "." for the empty result.
Clean(p) ==
    LET rooted == p # <<>> /\ p[1] = "/"
        body == Join(CleanStack(Split(p, "/"), rooted, <<>>), <<"/">>)
        out == IF rooted THEN <<"/">> \o body ELSE body
    IN  IF out = <<>> THEN <<".">> ELSE out

\* filepath.ToSlash on a system whose separator is '/'.
ToSlash(p) == p

----------------------------------------------------------------------------
(* os.FileMode as the set of its bits                                       *)

RECURSIVE Pow2(_)
Pow2(i) == IF i = 0 THEN 1 ELSE 2 * Pow2(i - 1)

\* The bits of a non-negative int below 2^31.
NatBits(n) == {i \in 0..30 : (n \div Pow2(i)) % 2 = 1}

\* os.FileMode(mode): the low 32 bits of an int64 (two's complement).
BitsOf(n) == IF n >= 0 THEN NatBits(n) ELSE (0..31) \ NatBits(0 - n - 1)

ModeDir == {31}                      \* os.ModeDir
ModeSymlink == {27}                  \* os.ModeSymlink
ModeDevice == {26}                   \* os.ModeDevice
gitModeSymlink == NatBits(8192)      \* 020000
Perm0644 == NatBits(420)             \* 0644
ModeSubmodule == NatBits(57344) \cup ModeDevice   \* vcs.ModeSubmodule: 0160000 | os.ModeDevice

NoSys == <<>>                        \* a nil Sys_
SubmoduleInfo(url, oid) == <<[URL |-> url, CommitID |-> oid]>>

\* util.FileInfo
FileInfo(name, mode, size, sys) ==
    [Name_ |-> name, Mode_ |-> mode, Size_ |-> size, Sys_ |-> sys]

\* util.SortFileInfosByName: sort.Sort by Name() with Go's string <.
RECURSIVE InsertByName(_, _)
InsertByName(sorted, fi) ==
    IF sorted = <<>> THEN <<fi>>
    ELSE IF StrLess(fi.Name_, sorted[1].Name_) THEN <<fi>> \o sorted
    ELSE <<sorted[1]>> \o InsertByName(Tail(sorted), fi)

RECURSIVE SortFileInfosByName(_)
SortFileInfosByName(fis) ==
    IF fis = <<>> THEN <<>>
    ELSE InsertByName(SortFileInfosByName(SliceTo(fis, Len(fis) - 1)), fis[Len(fis)])

----------------------------------------------------------------------------
(* Helpers of the repository that the code calls                            *)

\* checkSpecArgSafety: TRUE when the argument is accepted.  It rejects a
\* string that git would read as an option.
checkSpecArgSafety(spec) == ~HasPrefix(spec, <<"-">>)

\* util.Rel: the path relative to the root of the tree.
Rel(path) == IF path = <<"/">> THEN <<".">> ELSE TrimPrefix(path, <<"/">>)

OidLen == 40
HexDigits == {"0", "1", "2", "3", "4", "5", "6", "7", "8", "9",
              "a", "b", "c", "d", "e", "f"}

\* vcs.IsAbsoluteRevision: a full-length hexadecimal object id.
IsAbsoluteRevision(s) ==
    Len(s) = OidLen /\ \A i \in 1..Len(s) : s[i] \in HexDigits

\* Repository.ensureAbsCommit: returns normally (TRUE) for the commit ids of
\* the requests.
ensureAbsCommit(commit) == TRUE

----------------------------------------------------------------------------
(* The git tool: the repositories' trees and what `git` prints for them     *)

Oid(c) == [i \in 1..OidLen |-> c]

RepoR1 == <<"r", "1">>
RepoR2 == <<"r", "2">>

CommitA == Oid("a")
CommitB == Oid("b")
CommitU == Oid("c")                  \* a full id that names no object
CommitDash == <<"-", "-", "x">>      \* rejected by the guard

\* A repository and a commit string with the separator of the cache key in
\* them: RepoColon at CommitB and RepoR2 at CommitColon give the same key.
RepoColon == RepoR2 \o <<":", "z">>
CommitColon == <<"z", ":">> \o CommitB

\* The entries of a commit's tree, all levels, in git's order.
TreeA ==
    <<[path |-> <<"a">>, mode |-> <<"0", "4", "0", "0", "0", "0">>, typ |-> <<"t", "r", "e", "e">>,
       oid |-> Oid("1"), size |-> <<"-">>, link |-> <<>>],
      [path |-> <<"a", "/", "b", ".", "t", "x", "t">>, mode |-> <<"1", "0", "0", "6", "4", "4">>, typ |-> <<"b", "l", "o", "b">>,
       oid |-> Oid("2"), size |-> <<"1", "0">>, link |-> <<>>],
      [path |-> <<"a", "/", "c">>, mode |-> <<"0", "4", "0", "0", "0", "0">>, typ |-> <<"t", "r", "e", "e">>,
       oid |-> Oid("3"), size |-> <<"-">>, link |-> <<>>],
      [path |-> <<"a", "/", "c", "/", "d">>, mode |-> <<"1", "0", "0", "7", "5", "5">>, typ |-> <<"b", "l", "o", "b">>,
       oid |-> Oid("4"), size |-> <<"7">>, link |-> <<>>],
      [path |-> <<"l">>, mode |-> <<"1", "2", "0", "0", "0", "0">>, typ |-> <<"b", "l", "o", "b">>,
       oid |-> Oid("5"), size |-> <<"7">>, link |-> <<"a", "/", "b", ".", "t", "x", "t">>],
      [path |-> <<"l", "2">>, mode |-> <<"1", "2", "0", "0", "0", "0">>, typ |-> <<"b", "l", "o", "b">>,
       oid |-> Oid("6"), size |-> <<"1">>, link |-> <<"l">>],
      [path |-> <<"l", "d">>, mode |-> <<"1", "2", "0", "0", "0", "0">>, typ |-> <<"b", "l", "o", "b">>,
       oid |-> Oid("e"), size |-> <<"2">>, link |-> <<"-", "x">>],
      [path |-> <<"p">>, mode |-> <<"1", "2", "0", "0", "0", "0">>, typ |-> <<"b", "l", "o", "b">>,
       oid |-> Oid("f"), size |-> <<"1">>, link |-> <<"q">>],
      [path |-> <<"q">>, mode |-> <<"1", "2", "0", "0", "0", "0">>, typ |-> <<"b", "l", "o", "b">>,
       oid |-> <<"f">> \o Tail(Oid("1")), size |-> <<"1">>, link |-> <<"p">>],
      [path |-> <<"s">>, mode |-> <<"1", "6", "0", "0", "0", "0">>, typ |-> <<"c", "o", "m", "m", "i", "t">>,
       oid |-> Oid("7"), size |-> <<"-">>, link |-> <<>>]>>

TreeB ==
    <<[path |-> <<"a">>, mode |-> <<"0", "4", "0", "0", "0", "0">>, typ |-> <<"t", "r", "e", "e">>,
       oid |-> Oid("8"), size |-> <<"-">>, link |-> <<>>],
      [path |-> <<"a", "/", "b", ".", "t", "x", "t">>, mode |-> <<"1", "0", "0", "6", "4", "4">>, typ |-> <<"b", "l", "o", "b">>,
       oid |-> Oid("9"), size |-> <<"1", "2">>, link |-> <<>>],
      [path |-> <<"e">>, mode |-> <<"1", "0", "0", "6", "4", "4">>, typ |-> <<"b", "l", "o", "b">>,
       oid |-> Oid("0"), size |-> <<"0">>, link |-> <<>>],
      [path |-> <<"l">>, mode |-> <<"1", "2", "0", "0", "0", "0">>, typ |-> <<"b", "l", "o", "b">>,
       oid |-> Oid("d"), size |-> <<"2">>, link |-> <<"n", "x">>]>>

\* R1 holds TreeA at CommitA and TreeB at CommitB; R2 holds them the other
\* way round; CommitU names no tree.
TreeOf(repo, commit) ==
    IF commit \notin {CommitA, CommitB} THEN <<>>
    ELSE IF (repo = RepoR1) = (commit = CommitA) THEN TreeA ELSE TreeB

ExistsOnDisk == <<"e", "x", "i", "s", "t", "s", " ", "o", "n", " ", "d", "i", "s", "k", ",", " ", "b", "u", "t", " ", "n", "o", "t", " ", "i", "n">>
FatalNotATree == <<"f", "a", "t", "a", "l", ":", " ", "n", "o", "t", " ", "a", " ", "t", "r", "e", "e", " ", "o", "b", "j", "e", "c", "t">>
FatalNotInCommit == <<"f", "a", "t", "a", "l", ":", " ", "p", "a", "t", "h", " ">> \o ExistsOnDisk
SubmoduleURL == <<"u", ".", "x", "/", "s">>

TypTree == <<"t", "r", "e", "e">>
TypCommit == <<"c", "o", "m", "m", "i", "t">>
TypBlob == <<"b", "l", "o", "b">>

\* Whether `git ls-tree [-r -t] <commit> [-- spec]` prints entry e.  Without a
\* pathspec (or with "./") the top level is listed, every level with -r.  A
\* pathspec names an entry, or with a trailing slash what is under a directory.
\* Trees that lead to the pathspec are printed with -t only; a submodule entry
\* that leads to it is always printed.
Shown(e, spec, recurse) ==
    LET p == e.path
        rel == TrimPrefix(spec, <<".", "/">>)
        dirOnly == rel # <<>> /\ rel[Len(rel)] = "/"
        base == IF dirOnly THEN SliceTo(rel, Len(rel) - 1) ELSE rel
    IN  IF base = <<>> THEN recurse \/ IndexByte(p, "/") = -1
        ELSE IF p = base
        THEN ~dirOnly \/ e.typ = TypCommit \/ (e.typ = TypTree /\ recurse)
        ELSE IF HasPrefix(base, p \o <<"/">>)
        THEN e.typ = TypCommit \/ (e.typ = TypTree /\ recurse)
        ELSE IF HasPrefix(p, base \o <<"/">>)
        THEN recurse
             \/ (dirOnly /\ IndexByte(SliceFrom(p, Len(base) + 1), "/") = -1)
        ELSE FALSE

RECURSIVE SelectShown(_, _, _)
SelectShown(tree, spec, recurse) ==
    IF tree = <<>> THEN <<>>
    ELSE (IF Shown(tree[1], spec, recurse) THEN <<tree[1]>> ELSE <<>>)
         \o SelectShown(Tail(tree), spec, recurse)

Reverse(s) == [i \in 1..Len(s) |-> s[Len(s) + 1 - i]]

\* --long prints the size right-aligned in seven columns.
SizeWidth == 7
PadSize(size) == [i \in 1..(SizeWidth - Len(size)) |-> " "] \o size

\* One record of --long --full-name output, as the tool of this world prints
\* it: "<mode> <type> <oid> <size>TAB<path>".  A damaged tool (world.corrupt)
\* prints its last record wrongly, or (setmode) with the mode and the type that
\* the world gives.
RecordText(e, damaged) ==
    LET c == IF damaged THEN world.corrupt ELSE "none"
        mode == IF c = "badmode" THEN <<"1", "0", "x">>
                ELSE IF c = "setmode" THEN world.mode
                ELSE e.mode
        oid == IF c = "shortoid" THEN Tail(e.oid)
               ELSE IF c = "nonhexoid" THEN <<"z">> \o Tail(e.oid)
               ELSE e.oid
        size == IF c = "negsize" THEN <<" ", "-", "5">>
                ELSE IF c = "alphasize" THEN <<" ", "1", "x">>
                ELSE IF c = "extrafield" THEN <<" ", "1", " ", "2">>
                ELSE IF c = "nosize" THEN <<>>
                ELSE <<" ">> \o PadSize(e.size)
        typ == IF c = "notype" THEN <<>>
               ELSE IF c = "setmode" THEN world.typ
               ELSE e.typ
        sep == IF c = "notab" THEN <<" ">> ELSE <<TAB>>
    IN  mode \o <<" ">> \o typ \o <<" ">> \o oid \o size \o sep \o e.path

RECURSIVE RecordsText(_)
RecordsText(es) ==
    IF es = <<>> THEN <<>>
    ELSE RecordText(es[1], Len(es) = 1) \o <<NUL>>
         \o (IF Len(es) = 2 /\ world.corrupt = "emptyrec" THEN <<NUL>> ELSE <<>>)
         \o RecordsText(Tail(es))

\* cmd.CombinedOutput of `git ls-tree --long --full-name -z <commit> [-r -t]
\* [-- <path>]`: the exit status and the output.
GitLsTree(repo, commit, recurse, path) ==
    LET tree == TreeOf(repo, commit)
        shown == SelectShown(tree, path, recurse)
        es == IF world.order = "rev" THEN Reverse(shown) ELSE shown
        text == RecordsText(es)
    IN  IF tree = <<>> \/ HasPrefix(path, <<"/">>)
        THEN [exit |-> 128, out |-> FatalNotATree]
        ELSE IF es = <<>>
        THEN IF world.missing = "ondisk"
             THEN [exit |-> 128, out |-> FatalNotInCommit]
             ELSE [exit |-> 0, out |-> <<>>]
        ELSE [exit |-> 0,
              out |-> IF world.corrupt = "notrailnul"
                      THEN SliceTo(text, Len(text) - 1) ELSE text]

\* cmd.Output of `git config --get submodule.<name>.url`.
GitConfigURL(repo, name) ==
    IF world.url = "fail" \/ name # <<"s">> THEN [exit |-> 1, out |-> <<>>]
    ELSE IF world.url = "empty" THEN [exit |-> 0, out |-> <<LF>>]
    ELSE [exit |-> 0, out |-> SubmoduleURL \o <<LF>>]

\* Repository.readFileBytes: the content of the blob at path, read with
\* `git show <commit>:<path>`.
readFileBytes(repo, commit, path) ==
    LET tree == TreeOf(repo, commit)
        hit == {i \in 1..Len(tree) : tree[i].path = path /\ tree[i].typ = TypBlob}
    IN  IF hit = {} THEN [err |-> "NotFound", b |-> <<>>]
        ELSE [err |-> "", b |-> tree[CHOOSE i \in hit : TRUE].link]

----------------------------------------------------------------------------
(* What a request did, recorded as it runs: the guard checks, the           *)
(* subprocesses and the cache operations, in order                          *)

Ev(ev, arg, ok, resp) == [ev |-> ev, arg |-> arg, ok |-> ok, resp |-> resp]

Outcome(kind, fis, tr) == [kind |-> kind, fis |-> fis, tr |-> tr]

\* How the tool answered an ls-tree call.
Response(run) ==
    IF run.exit # 0
    THEN IF Contains(run.out, ExistsOnDisk) THEN "notInCommit" ELSE "failed"
    ELSE IF Len(run.out) = 0 THEN "empty" ELSE "records"

----------------------------------------------------------------------------
(* lsTreeUncached                                                           *)

\* The name of a record as the tool printed it.
RecordNameNoFallback(name, trimPath) == name

\* The name of a record: the queried path stands in for a path shorter than it.
RecordName(name, trimPath) ==
    IF Len(name) < Len(trimPath) THEN trimPath ELSE name

\* The size field: "-" for a directory or submodule, else a decimal number.
RecordSize(sizeStr) ==
    IF sizeStr # <<"-">> THEN ParseInt(sizeStr, 10, 64)
    ELSE [err |-> "", val |-> 0]

\* The switch without the permission bits of a regular file.
RecordModeNoPerm(typ, mode) ==
    IF typ = TypBlob
    THEN IF BitsOf(mode) \cap gitModeSymlink # {}
         THEN ModeSymlink
         ELSE BitsOf(mode)
    ELSE IF typ = TypCommit THEN BitsOf(mode) \cup ModeSubmodule
    ELSE IF typ = TypTree THEN BitsOf(mode) \cup ModeDir
    ELSE BitsOf(mode)

\* The switch on the type of the record.
RecordMode(typ, mode) ==
    IF typ = TypBlob
    THEN IF BitsOf(mode) \cap gitModeSymlink # {}
         THEN ModeSymlink
         ELSE BitsOf(mode) \cup Perm0644
    ELSE IF typ = TypCommit THEN BitsOf(mode) \cup ModeSubmodule
    ELSE IF typ = TypTree THEN BitsOf(mode) \cup ModeDir
    ELSE BitsOf(mode)

\* The url as the query printed it, whatever its exit status.
RecordURLRaw(cfg) == cfg.out

\* The url of a submodule: empty unless the query succeeded.
RecordURL(cfg) == IF cfg.exit = 0 THEN TrimSpace(cfg.out) ELSE <<>>

\* The body of the loop over the records, after the split of the record at
\* its tab and of its metadata at the spaces: one record to one FileInfo.
lsTreeRecord(repo, info, name0, trimPath, prefixLen) ==
    LET name == RecordName(name0, trimPath)
        typ == info[2]
        oid == info[3]
        size == RecordSize(TrimSpace(info[4]))
        mode == ParseInt(info[1], 8, 32)
        isCommit == typ = TypCommit
        cfg == GitConfigURL(repo, name)
        tr == IF isCommit
              THEN <<Ev("config", name, cfg.exit = 0, "")>> ELSE <<>>
    IN  IF Len(info) # 4 THEN Outcome("MalformedOutput", <<>>, <<>>)
        ELSE IF ~IsAbsoluteRevision(oid) THEN Outcome("MalformedOutput", <<>>, <<>>)
        ELSE IF size.err # "" \/ size.val < 0
        THEN Outcome("MalformedOutput", <<>>, <<>>)
        ELSE IF mode.err # "" THEN Outcome("NumError", <<>>, <<>>)
        ELSE IF prefixLen > Len(name) THEN Outcome("panic", <<>>, tr)
        ELSE Outcome("ok",
                     <<FileInfo(SliceFrom(name, prefixLen),
                                RecordMode(typ, mode.val), size.val,
                                IF isCommit
                                THEN SubmoduleInfo(RecordURL(cfg), oid)
                                ELSE NoSys)>>,
                     tr)

lsTreeLine(repo, line, trimPath, prefixLen) ==
    LET tabPos == IndexByte(line, TAB) IN
    IF tabPos = -1 THEN Outcome("MalformedOutput", <<>>, <<>>)
    ELSE CHOOSE o \in
           {lsTreeRecord(repo, info, SliceFrom(line, tabPos + 1), trimPath, prefixLen) :
              info \in {SplitN(SliceTo(line, tabPos), " ", 4)}} : TRUE

\* The records in order up to the first one in error.  (A value bound by a
\* quantifier is computed once; the operators below are split so that the
\* tool's output, its lines and the parsed records are computed once each.)
RECURSIVE FirstBad(_, _)
FirstBad(rs, i) ==
    IF i > Len(rs) THEN 0
    ELSE IF rs[i].kind # "ok" THEN i ELSE FirstBad(rs, i + 1)

RECURSIVE FlattenTr(_, _)
FlattenTr(rs, n) == IF n = 0 THEN <<>> ELSE FlattenTr(rs, n - 1) \o rs[n].tr

RECURSIVE ParseEach(_, _, _, _, _)
ParseEach(repo, lines, n, trimPath, prefixLen) ==
    IF n = 0 THEN <<>>
    ELSE CHOOSE out \in
           {Append(before, r) :
              before \in {ParseEach(repo, lines, n - 1, trimPath, prefixLen)},
              r \in {lsTreeLine(repo, lines[n], trimPath, prefixLen)}} : TRUE

\* The loop over lines: the last element of the split is skipped unread, any
\* other one is parsed, and the first record in error ends the listing.
lsTreeLoop(repo, lines, trimPath, prefixLen) ==
    CHOOSE o \in
      {LET bad == FirstBad(rs, 1) IN
       IF bad # 0 THEN Outcome(rs[bad].kind, <<>>, FlattenTr(rs, bad))
       ELSE Outcome("ok", [i \in 1..Len(rs) |-> rs[i].fis[1]],
                    FlattenTr(rs, Len(rs))) :
         rs \in {ParseEach(repo, lines, Len(lines) - 1, trimPath, prefixLen)}} :
      TRUE

\* The output of the tool to the sorted entries: the split at NUL, the loop
\* and the sort.
lsTreeEntries(repo, path, out) ==
    LET trimPath == TrimPrefix(path, <<".", "/">>)
        prefixLen == LastIndexByte(trimPath, "/") + 1
    IN  CHOOSE o \in
          {IF parsed.kind # "ok"
           THEN Outcome(parsed.kind, <<>>, parsed.tr)
           ELSE Outcome("ok", SortFileInfosByName(parsed.fis), parsed.tr) :
             parsed \in {CHOOSE q \in
                           {lsTreeLoop(repo, lines, trimPath, prefixLen) :
                              lines \in {Split(out, NUL)}} : TRUE}} :
          TRUE

\* lsTreeOutput without the two answers of "does not exist": a failed run is
\* an execution error and an empty output an empty listing.
lsTreeOutputNoNotExist(repo, path, run) ==
    LET pre == <<Ev("ls-tree", ToSlash(path), run.exit = 0, Response(run))>>
    IN  IF run.exit # 0 THEN Outcome("ExecutionError", <<>>, pre)
        ELSE CHOOSE o \in
               {Outcome(e.kind, e.fis, pre \o e.tr) :
                  e \in {lsTreeEntries(repo, path, run.out)}} : TRUE

\* lsTreeUncached from the return of the tool on.
lsTreeOutput(repo, path, run) ==
    LET pre == <<Ev("ls-tree", ToSlash(path), run.exit = 0, Response(run))>>
    IN  IF run.exit # 0
        THEN IF Contains(run.out, ExistsOnDisk)
             THEN Outcome("NotFound", <<>>, pre)
             ELSE Outcome("ExecutionError", <<>>, pre)
        ELSE IF Len(run.out) = 0 THEN Outcome("NotFound", <<>>, pre)
        ELSE CHOOSE o \in
               {Outcome(e.kind, e.fis, pre \o e.tr) :
                  e \in {lsTreeEntries(repo, path, run.out)}} : TRUE

\* lsTreeUncached without its check of the path.
lsTreeUncachedUnguarded(repo, commit, path, recurse) ==
    CHOOSE o \in
      {lsTreeOutput(repo, path, run) :
         run \in {GitLsTree(repo, commit, recurse, ToSlash(path))}} : TRUE

lsTreeUncached(repo, commit, path, recurse) ==
    IF ~ensureAbsCommit(commit) THEN Outcome("panic", <<>>, <<>>)
    ELSE IF ~checkSpecArgSafety(path)
    THEN Outcome("UnsafeArgument", <<>>, <<Ev("guard", path, FALSE, "")>>)
    ELSE CHOOSE o \in
           {Outcome(ls.kind, ls.fis, <<Ev("guard", path, TRUE, "")>> \o ls.tr) :
              ls \in {CHOOSE q \in
                        {lsTreeOutput(repo, path, run) :
                           run \in {GitLsTree(repo, commit, recurse,
                                              ToSlash(path))}} : TRUE}} : TRUE

----------------------------------------------------------------------------
(* Lstat, Stat, ReadDir                                                     *)

GuardOk(arg) == Ev("guard", arg, TRUE, "")
GuardFail(arg) == Ev("guard", arg, FALSE, "")

\* The root listed with or without recursion.
CacheableAnyRecurse(path, recurse) == path = <<>>

\* Every listing served through the cache.
CacheableAlways(path, recurse) == TRUE

\* lsTree: only the recursive listing of the root goes through the cache.
Cacheable(path, recurse) == ~(path # <<>> \/ ~recurse)

\* The call of lsTree by Lstat: whether lsTree serves it from the cache.
Routed(path, recurse) ==
    <<Ev("lsTree", path, TRUE,
         IF Cacheable(path, recurse) THEN "cache" ELSE "uncached")>>

\* LstatPath without the special case of the root.
LstatPathNoRoot(repo, commit, path) ==
    CHOOSE o \in
      {IF ls.kind # "ok" THEN Outcome(ls.kind, <<>>, Routed(path, FALSE) \o ls.tr)
       ELSE IF Len(ls.fis) = 0
       THEN Outcome("NotFound", <<>>, Routed(path, FALSE) \o ls.tr)
       ELSE Outcome("ok", <<ls.fis[1]>>, Routed(path, FALSE) \o ls.tr) :
         ls \in {lsTreeUncached(repo, commit, path, FALSE)}} : TRUE

\* Lstat, after its check of the commit: the root is answered without the
\* tool, any other path by lsTree(ctx, commit, path, false), which for a
\* non-recursive listing is lsTreeUncached.
LstatPath(repo, commit, path) ==
    IF path = <<".">>
    THEN Outcome("ok", <<FileInfo(<<>>, ModeDir, 0, NoSys)>>, <<>>)
    ELSE CHOOSE o \in
           {IF ls.kind # "ok" THEN Outcome(ls.kind, <<>>, Routed(path, FALSE) \o ls.tr)
            ELSE IF Len(ls.fis) = 0
            THEN Outcome("NotFound", <<>>, Routed(path, FALSE) \o ls.tr)
            ELSE Outcome("ok", <<ls.fis[1]>>, Routed(path, FALSE) \o ls.tr) :
              ls \in {lsTreeUncached(repo, commit, path, FALSE)}} : TRUE

\* Lstat without its check of the commit.
LstatUnguarded(repo, commit, path) ==
    CHOOSE o \in
      {Outcome(r.kind, r.fis, <<GuardOk(commit)>> \o r.tr) :
         r \in {LstatPath(repo, commit, Clean(Rel(path)))}} : TRUE

Lstat(repo, commit, path) ==
    IF ~checkSpecArgSafety(commit)
    THEN Outcome("UnsafeArgument", <<>>, <<GuardFail(commit)>>)
    ELSE CHOOSE o \in
           {Outcome(r.kind, r.fis, <<GuardOk(commit)>> \o r.tr) :
              r \in {LstatPath(repo, commit, Clean(Rel(path)))}} : TRUE

\* StatDeref that keeps the entry of the link's content as it is.
StatDerefKeepName(repo, commit, path, fi) ==
    IF fi.kind # "ok" THEN fi
    ELSE IF fi.fis[1].Mode_ \cap ModeSymlink = {} THEN fi
    ELSE CHOOSE o \in
           {IF b.err # ""
            THEN Outcome(b.err, <<>>, fi.tr \o <<Ev("show", path, FALSE, "")>>)
            ELSE CHOOSE o2 \in
                   {Outcome(fi2.kind, fi2.fis,
                            fi.tr \o <<Ev("show", path, TRUE, "")>> \o fi2.tr) :
                      fi2 \in {Lstat(repo, commit, b.b)}} : TRUE :
              b \in {readFileBytes(repo, commit, path)}} : TRUE

\* StatDeref that follows a second link.
StatDerefTwoLevels(repo, commit, path, fi) ==
    IF fi.kind # "ok" THEN fi
    ELSE IF fi.fis[1].Mode_ \cap ModeSymlink = {} THEN fi
    ELSE CHOOSE o \in
           {IF fi2.kind # "ok" THEN fi2
            ELSE IF fi2.fis[1].Mode_ \cap ModeSymlink = {}
            THEN Outcome("ok", <<[fi2.fis[1] EXCEPT !.Name_ = fi.fis[1].Name_]>>,
                         fi.tr \o <<Ev("show", path, TRUE, "")>> \o fi2.tr)
            ELSE CHOOSE o3 \in
                   {IF fi3.kind # "ok" THEN fi3
                    ELSE Outcome("ok",
                                 <<[fi3.fis[1] EXCEPT !.Name_ = fi.fis[1].Name_]>>,
                                 fi.tr \o <<Ev("show", path, TRUE, "")>> \o fi2.tr
                                   \o <<Ev("show", path, TRUE, "")>> \o fi3.tr) :
                      fi3 \in {Lstat(repo, commit,
                                     readFileBytes(repo, commit,
                                                   readFileBytes(repo, commit, path).b).b)}} :
                   TRUE :
              fi2 \in {Lstat(repo, commit, readFileBytes(repo, commit, path).b)}} : TRUE

\* Stat, after its check of the commit and its own Lstat fi of the path: a
\* symbolic link is read and its content resolved with a second Lstat, whose
\* entry is given the name of fi.
StatDeref(repo, commit, path, fi) ==
    IF fi.kind # "ok" THEN fi
    ELSE IF fi.fis[1].Mode_ \cap ModeSymlink = {} THEN fi
    ELSE CHOOSE o \in
           {IF b.err # ""
            THEN Outcome(b.err, <<>>, fi.tr \o <<Ev("show", path, FALSE, "")>>)
            ELSE CHOOSE o2 \in
                   {IF fi2.kind # "ok"
                    THEN Outcome(fi2.kind, <<>>,
                                 fi.tr \o <<Ev("show", path, TRUE, "")>> \o fi2.tr)
                    ELSE Outcome("ok",
                                 <<[fi2.fis[1] EXCEPT !.Name_ = fi.fis[1].Name_]>>,
                                 fi.tr \o <<Ev("show", path, TRUE, "")>> \o fi2.tr
                                   \o <<Ev("rename", fi.fis[1].Name_, TRUE, "")>>) :
                      fi2 \in {Lstat(repo, commit, b.b)}} : TRUE :
              b \in {readFileBytes(repo, commit, path)}} : TRUE

Stat(repo, commit, path) ==
    IF ~checkSpecArgSafety(commit)
    THEN Outcome("UnsafeArgument", <<>>, <<GuardFail(commit)>>)
    ELSE CHOOSE o \in
           {Outcome(r.kind, r.fis, <<GuardOk(commit)>> \o r.tr) :
              r \in {CHOOSE q \in
                       {StatDeref(repo, commit, Rel(path), fi) :
                          fi \in {Lstat(repo, commit, Rel(path))}} : TRUE}} : TRUE

\* The path ReadDir lists: a trailing slash lists under the directory.
ReadDirPath(path) ==
    IF path # <<>> THEN Clean(Rel(path)) \o <<"/">> ELSE path

\* A key that leaves the commit out.
CacheKeyNoCommit(repo, commit, path) == repo \o <<":">> \o path

CacheKey(repo, commit, path) == repo \o <<":">> \o commit \o <<":">> \o path

----------------------------------------------------------------------------
(* lsTreeRootCache: lru.New(5)                                              *)

lsTreeRootCacheSize == 5

CacheIndex(c, key) ==
    IF \E i \in 1..Len(c) : c[i].key = key
    THEN CHOOSE i \in 1..Len(c) : c[i].key = key
    ELSE 0

Without(c, i) == SubSeq(c, 1, i - 1) \o SubSeq(c, i + 1, Len(c))

\* A Get that finds the entry and leaves it where it is.
LruGetNoTouch(c, key) ==
    LET i == CacheIndex(c, key) IN
    IF i = 0 THEN [ok |-> FALSE, val |-> <<>>, cache |-> c]
    ELSE [ok |-> TRUE, val |-> c[i].val, cache |-> c]

\* lru.Cache.Get: a hit moves the entry to the front.
LruGet(c, key) ==
    LET i == CacheIndex(c, key) IN
    IF i = 0 THEN [ok |-> FALSE, val |-> <<>>, cache |-> c]
    ELSE [ok |-> TRUE, val |-> c[i].val, cache |-> <<c[i]>> \o Without(c, i)]

\* lru.Cache.Add: a key already stored is moved to the front with the new
\* value; a new key is put at the front and the oldest entry is removed when
\* more than MaxEntries are stored.
LruAdd(c, key, val) ==
    LET i == CacheIndex(c, key)
        added == IF i # 0 THEN <<[key |-> key, val |-> val]>> \o Without(c, i)
                 ELSE <<[key |-> key, val |-> val]>> \o c
    IN  IF Len(added) > lsTreeRootCacheSize
        THEN SubSeq(added, 1, Len(added) - 1) ELSE added

\* The runs of the git commands have no form on the page.
NoForm == [mounted |-> FALSE]

----------------------------------------------------------------------------
(* The requests: each thread runs one request at a time                     *)

\* time.Since(start) > 500*time.Millisecond && len(entries) > 5000.  The
\* entry count that is worth caching is scaled to the trees of the model:
\* EntriesThreshold stands for the source's 5000.
CacheMinElapsedMs == 500
EntriesThreshold == 4

\* The durations a listing may take: at and just over the threshold.
Durations == {CacheMinElapsedMs, CacheMinElapsedMs + 1}

Idle ==
    [pc |-> "idle", op |-> "", repo |-> <<>>, commit |-> <<>>, path |-> <<>>,
     recurse |-> FALSE, key |-> <<>>, hit |-> FALSE, elapsed |-> 0,
     kind |-> "", fis |-> <<>>, tr |-> <<>>]

Request(op, repo, commit, path, recurse) ==
    [op |-> op, repo |-> repo, commit |-> commit, path |-> path, recurse |-> recurse]

\* A thread that is not running a request receives one.
Call(t, requests) ==
    /\ thr[t].pc \in {"idle", "done"}
    /\ \E rq \in requests :
         thr' = [thr EXCEPT ![t] =
                   [Idle EXCEPT !.pc = "called", !.op = rq.op, !.repo = rq.repo,
                                !.commit = rq.commit, !.path = rq.path,
                                !.recurse = rq.recurse]]
    /\ UNCHANGED <<world, cache, mu, form>>

Return(t, o) ==
    thr' = [thr EXCEPT ![t].pc = "done", ![t].kind = o.kind, ![t].fis = o.fis,
                       ![t].tr = thr[t].tr \o o.tr]

LstatCall(t) ==
    /\ thr[t].pc = "called" /\ thr[t].op = "Lstat"
    /\ Return(t, Lstat(thr[t].repo, thr[t].commit, thr[t].path))
    /\ UNCHANGED <<world, cache, mu, form>>

StatCall(t) ==
    /\ thr[t].pc = "called" /\ thr[t].op = "Stat"
    /\ Return(t, Stat(thr[t].repo, thr[t].commit, thr[t].path))
    /\ UNCHANGED <<world, cache, mu, form>>

\* ReadDir up to the cache lookup of lsTree: the check of the commit, the
\* path, and for any listing but the recursive one of the root the uncached
\* listing.
ReadDirCall(t) ==
    LET r == thr[t]
        path == ReadDirPath(r.path)
    IN  /\ r.pc = "called" /\ r.op = "ReadDir"
        /\ IF ~checkSpecArgSafety(r.commit)
           THEN Return(t, Outcome("UnsafeArgument", <<>>, <<GuardFail(r.commit)>>))
           ELSE IF ~Cacheable(path, r.recurse)
           THEN \E o \in {lsTreeUncached(r.repo, r.commit, path, r.recurse)} :
                  Return(t, Outcome(o.kind, o.fis, <<GuardOk(r.commit)>> \o o.tr))
           ELSE thr' = [thr EXCEPT ![t].pc = "lock",
                                   ![t].key = CacheKey(r.repo, r.commit, path),
                                   ![t].tr = <<GuardOk(r.commit)>>]
        /\ UNCHANGED <<world, cache, mu, form>>

\* lsTreeRootCacheMu.Lock() before the lookup
LockGet(t) ==
    /\ thr[t].pc = "lock" /\ mu = 0
    /\ mu' = t
    /\ thr' = [thr EXCEPT ![t].pc = "get"]
    /\ UNCHANGED <<world, cache, form>>

\* v, ok := lsTreeRootCache.Get(key)
CacheGet(t) ==
    /\ thr[t].pc = "get"
    /\ \E g \in {LruGet(cache, thr[t].key)} :
         /\ cache' = g.cache
         /\ thr' = [thr EXCEPT ![t].pc = "unlock", ![t].hit = g.ok,
                               ![t].fis = g.val,
                               ![t].tr = thr[t].tr \o
                                  <<Ev("cache.Get", thr[t].key, g.ok, "")>>]
    /\ UNCHANGED <<world, mu, form>>

\* UnlockGet that releases the mutex on a hit only.
UnlockGetHitOnly(t) ==
    /\ thr[t].pc = "unlock" /\ mu = t
    /\ mu' = IF thr[t].hit THEN 0 ELSE mu
    /\ thr' = [thr EXCEPT ![t].pc = IF thr[t].hit THEN "done" ELSE "miss",
                          ![t].kind = IF thr[t].hit THEN "ok" ELSE ""]
    /\ UNCHANGED <<world, cache, form>>

\* lsTreeRootCacheMu.Unlock(); a hit returns the stored entries.
UnlockGet(t) ==
    /\ thr[t].pc = "unlock" /\ mu = t
    /\ mu' = 0
    /\ thr' = [thr EXCEPT ![t].pc = IF thr[t].hit THEN "done" ELSE "miss",
                          ![t].kind = IF thr[t].hit THEN "ok" ELSE ""]
    /\ UNCHANGED <<world, cache, form>>

\* StartList that waits while another thread lists or inserts for the key.
StartListCoalesced(t) ==
    /\ thr[t].pc = "miss"
    /\ ~\E u \in DOMAIN thr \ {t} :
          /\ thr[u].key = thr[t].key
          /\ thr[u].pc \in {"listing", "lockAdd", "add", "unlockAdd"}
    /\ thr' = [thr EXCEPT ![t].pc = "listing"]
    /\ UNCHANGED <<world, cache, mu, form>>

\* The cache miss: start := time.Now() and the call of lsTreeUncached.
StartList(t) ==
    /\ thr[t].pc = "miss"
    /\ thr' = [thr EXCEPT ![t].pc = "listing"]
    /\ UNCHANGED <<world, cache, mu, form>>

\* The return of lsTreeUncached, timed: its error is returned, and a listing
\* that was quick or short is returned without being stored.
ListUncached(t) ==
    LET r == thr[t] IN
    /\ r.pc = "listing"
    /\ \E elapsed \in Durations,
          o \in {lsTreeUncached(r.repo, r.commit, ReadDirPath(r.path), r.recurse)} :
         IF o.kind # "ok" THEN Return(t, o)
         ELSE IF elapsed > CacheMinElapsedMs /\ Len(o.fis) > EntriesThreshold
         THEN thr' = [thr EXCEPT ![t].pc = "lockAdd", ![t].fis = o.fis,
                                 ![t].elapsed = elapsed,
                                 ![t].tr = r.tr \o o.tr]
         ELSE thr' = [thr EXCEPT ![t].pc = "done", ![t].kind = "ok",
                                 ![t].fis = o.fis, ![t].elapsed = elapsed,
                                 ![t].tr = r.tr \o o.tr]
    /\ UNCHANGED <<world, cache, mu, form>>

\* lsTreeRootCacheMu.Lock() before the insert
LockAdd(t) ==
    /\ thr[t].pc = "lockAdd" /\ mu = 0
    /\ mu' = t
    /\ thr' = [thr EXCEPT ![t].pc = "add"]
    /\ UNCHANGED <<world, cache, form>>

\* lsTreeRootCache.Add(key, entries)
CacheAdd(t) ==
    /\ thr[t].pc = "add"
    /\ cache' = LruAdd(cache, thr[t].key, thr[t].fis)
    /\ thr' = [thr EXCEPT ![t].pc = "unlockAdd",
                          ![t].tr = thr[t].tr \o
                             <<Ev("cache.Add", thr[t].key, TRUE,
                                  IF Len(cache) = lsTreeRootCacheSize
                                     /\ CacheIndex(cache, thr[t].key) = 0
                                  THEN "evicted" ELSE "")>>]
    /\ UNCHANGED <<world, mu, form>>

\* lsTreeRootCacheMu.Unlock(); return entries, nil
UnlockAdd(t) ==
    /\ thr[t].pc = "unlockAdd" /\ mu = t
    /\ mu' = 0
    /\ thr' = [thr EXCEPT ![t].pc = "done", ![t].kind = "ok"]
    /\ UNCHANGED <<world, cache, form>>

Step(t, requests) ==
    \/ Call(t, requests)
    \/ LstatCall(t)
    \/ StatCall(t)
    \/ ReadDirCall(t)
    \/ LockGet(t)
    \/ CacheGet(t)
    \/ UnlockGet(t)
    \/ StartList(t)
    \/ ListUncached(t)
    \/ LockAdd(t)
    \/ CacheAdd(t)
    \/ UnlockAdd(t)

----------------------------------------------------------------------------
(* The specifications                                                       *)

Orders == {"git", "rev"}
URLs == {"set", "empty", "fail"}
Missing == {"empty", "ondisk"}
Damage == {"notab", "nosize", "notype", "extrafield", "shortoid", "nonhexoid",
           "negsize", "alphasize", "badmode", "notrailnul", "emptyrec"}

World(order, url, missing, corrupt) ==
    [order |-> order, url |-> url, missing |-> missing, corrupt |-> corrupt]

\* A sound tool in every combination of its behaviours, and each kind of
\* damaged output.
Worlds ==
    {World(o, u, m, "none") : o \in Orders, u \in URLs, m \in Missing}
    \cup {World("git", "set", "empty", c) : c \in Damage}

Paths ==
    {<<>>,
     <<".">>,
     <<"/">>,
     <<"a">>,
     <<"a", "/", "c">>,
     <<"/", "a", "/", "c", "/">>,
     <<"a", "/", "b", ".", "t", "x", "t">>,
     <<"a", "/", "n", "x">>,
     <<"l">>,
     <<"l", "2">>,
     <<"s">>,
     <<"s", "/", "x">>,
     <<"n", "x">>,
     <<"-", "x">>,
     <<"l", "d">>,
     <<"/", "/", "a">>,
     <<".", "/">>,
     <<"p">>}

\* Spec: one thread, every operation on every path of one repository.
FacadeRequests ==
    {Request(op, RepoR1, c, p, FALSE) :
       op \in {"Lstat", "Stat", "ReadDir"},
       c \in {CommitA, CommitB, CommitU, CommitDash}, p \in Paths}
    \cup {Request("ReadDir", RepoR1, c, p, TRUE) :
            c \in {CommitA, CommitB, CommitU, CommitDash}, p \in Paths}

FacadeThreads == {1}

Init ==
    /\ world \in Worlds
    /\ cache = <<>>
    /\ mu = 0
    /\ thr = [t \in FacadeThreads |-> Idle]
    /\ form = NoForm

Next == \E t \in FacadeThreads : Step(t, FacadeRequests)

Spec == Init /\ [][Next]_vars

\* SpecCache: two threads share the cache; the recursive listing of the root
\* of two repositories at two commits, and one request of each other shape.
CacheWorlds ==
    {World(o, "set", "empty", "none") : o \in Orders}
    \cup {World("git", "fail", "ondisk", "notab")}

CacheRequests ==
    {Request("ReadDir", r, c, <<>>, TRUE) :
       r \in {RepoR1, RepoR2}, c \in {CommitA, CommitB}}
    \cup {Request("ReadDir", RepoR1, CommitA, <<".">>, TRUE),
          Request("ReadDir", RepoR1, CommitA, <<>>, FALSE),
          Request("Lstat", RepoR1, CommitA, <<"a">>, FALSE),
          Request("Stat", RepoR1, CommitA, <<"l">>, FALSE)}

CacheThreads == {1, 2}

InitCache ==
    /\ world \in CacheWorlds
    /\ cache = <<>>
    /\ mu = 0
    /\ thr = [t \in CacheThreads |-> Idle]
    /\ form = NoForm

NextCache == \E t \in CacheThreads : Step(t, CacheRequests)

SpecCache == InitCache /\ [][NextCache]_vars

\* SpecMode: one thread; the tool prints the record of s with each mode and
\* each type.
ModeValues ==
    {<<"0">>,
     <<"6", "4", "4">>,
     <<"0", "2", "0", "0", "0", "0">>,
     <<"0", "4", "0", "0", "0", "0">>,
     <<"1", "0", "0", "6", "4", "4">>,
     <<"1", "0", "0", "7", "5", "5">>,
     <<"1", "2", "0", "0", "0", "0">>,
     <<"1", "6", "0", "0", "0", "0">>,
     <<"7", "7", "7", "7", "7", "7">>,
     <<"4", "0", "0", "1", "6", "0", "0", "0", "0">>,
     <<"1", "0", "0", "0", "0", "0", "0", "6", "4", "4">>,
     <<"1", "7", "7", "7", "7", "7", "7", "7", "7", "7", "7">>}

ModeWorlds ==
    {[order |-> "git", url |-> "set", missing |-> "empty", corrupt |-> "setmode",
      mode |-> m, typ |-> ty] :
       m \in ModeValues, ty \in {TypBlob, TypCommit, TypTree}}

ModeRequests ==
    {Request("Lstat", RepoR1, CommitA, <<"s">>, FALSE),
     Request("Stat", RepoR1, CommitA, <<"s">>, FALSE),
     Request("ReadDir", RepoR1, CommitA, <<>>, FALSE),
     Request("ReadDir", RepoR1, CommitA, <<>>, TRUE)}

InitMode ==
    /\ world \in ModeWorlds
    /\ cache = <<>>
    /\ mu = 0
    /\ thr = [t \in FacadeThreads |-> Idle]
    /\ form = NoForm

NextMode == \E t \in FacadeThreads : Step(t, ModeRequests)

SpecMode == InitMode /\ [][NextMode]_vars

\* SpecLru: more repositories than the cache has room for.  A run has either
\* one thread that lists the roots of six repositories, or two threads that
\* work on two of them at the same time.
LruRepos == {RepoR2} \cup {<<"r", d>> : d \in {"3", "4", "5", "6", "7"}}

LruRequests ==
    {Request("ReadDir", r, CommitB, <<>>, TRUE) : r \in LruRepos}

PairRequests ==
    {Request("ReadDir", RepoR2, CommitB, <<>>, TRUE),
     Request("ReadDir", RepoR1, CommitA, <<>>, TRUE),
     Request("Lstat", RepoR2, CommitB, <<"a">>, FALSE),
     Request("Stat", RepoR2, CommitB, <<"l">>, FALSE)}

InitLru ==
    /\ world = World("git", "set", "empty", "none")
    /\ cache = <<>>
    /\ mu = 0
    /\ thr \in {[t \in {1} |-> Idle], [t \in CacheThreads |-> Idle]}
    /\ form = NoForm

\* What a thread of the run may ask for.
LruOrPairRequests == IF DOMAIN thr = {1} THEN LruRequests ELSE PairRequests

\* The steps of Step, for the threads that the run has.
NextLru ==
    \/ \E t \in CacheThreads : t \in DOMAIN thr /\ Call(t, LruOrPairRequests)
    \/ \E t \in CacheThreads : t \in DOMAIN thr /\ LstatCall(t)
    \/ \E t \in CacheThreads : t \in DOMAIN thr /\ StatCall(t)
    \/ \E t \in CacheThreads : t \in DOMAIN thr /\ ReadDirCall(t)
    \/ \E t \in CacheThreads : t \in DOMAIN thr /\ LockGet(t)
    \/ \E t \in CacheThreads : t \in DOMAIN thr /\ CacheGet(t)
    \/ \E t \in CacheThreads : t \in DOMAIN thr /\ UnlockGet(t)
    \/ \E t \in CacheThreads : t \in DOMAIN thr /\ StartList(t)
    \/ \E t \in CacheThreads : t \in DOMAIN thr /\ ListUncached(t)
    \/ \E t \in CacheThreads : t \in DOMAIN thr /\ LockAdd(t)
    \/ \E t \in CacheThreads : t \in DOMAIN thr /\ CacheAdd(t)
    \/ \E t \in CacheThreads : t \in DOMAIN thr /\ UnlockAdd(t)

SpecLru == InitLru /\ [][NextLru]_vars

\* SpecKey: two threads; requests whose repository or commit holds a ':'.
KeyRequests ==
    {Request("ReadDir", RepoColon, CommitB, <<>>, TRUE),
     Request("ReadDir", RepoR2, CommitColon, <<>>, TRUE),
     Request("ReadDir", RepoR2, CommitB, <<>>, TRUE),
     Request("Lstat", RepoColon, CommitB, <<"a">>, FALSE),
     Request("Stat", RepoColon, CommitB, <<"l">>, FALSE)}

InitKey ==
    /\ world = World("git", "set", "empty", "none")
    /\ cache = <<>>
    /\ mu = 0
    /\ thr = [t \in CacheThreads |-> Idle]
    /\ form = NoForm

NextKey == \E t \in CacheThreads : Step(t, KeyRequests)

SpecKey == InitKey /\ [][NextKey]_vars

----------------------------------------------------------------------------
(* The SavedQueryForm component                                             *)

\* A text is a sequence of words; String.includes looks for one of them.
Includes(text, word) == \E i \in 1..Len(text) : text[i] = word

\* What the inputs of the form can hold.
Queries == {<<>>, <<"fix">>, <<"type:diff", "fix">>}
Descriptions == {<<>>, <<"my", "search">>}
UserId == "user1"
OrgId == "org1"
Subjects == {"", UserId, OrgId}
NameLists == {<<>>, <<"alice">>}

\* The subjects that configurationCascade can deliver, each with its id.
SubjectLists == {<<UserId, OrgId>>, <<OrgId>>}

\* __typename === 'Org'
IsOrg(id) == id = OrgId

\* Props.defaultValues, as the constructor reads them.
DefaultValues ==
    [query : Queries, description : Descriptions, subject : Subjects,
     showOnHomepage : BOOLEAN, notify : BOOLEAN, notifySlack : BOOLEAN,
     notifyUsers : NameLists, notifyOrganizations : {<<>>}]

\* constructor: the state of a new component.  sub is the subscription to
\* the observable that onSubmit returned; didCommit and didCancel tell
\* whether props.onDidCommit and props.onDidCancel have been called.
NewForm(defaultValues) ==
    [mounted |-> TRUE,
     values |-> defaultValues,
     subjectOptions |-> <<>>,
     isSubmitting |-> FALSE,
     isFocused |-> FALSE,
     error |-> FALSE,
     sawUnsupportedNotifyQueryWarning |-> FALSE,
     sub |-> "none",
     didCommit |-> FALSE,
     didCancel |-> FALSE]

isUnsupportedNotifyQuery(v) ==
    LET notifying == v.notify \/ v.notifySlack \/ Len(v.notifyUsers) > 0
                     \/ Len(v.notifyOrganizations) > 0
    IN  notifying /\ ~Includes(v.query, "type:diff")
                  /\ ~Includes(v.query, "type:commit")

savingToOrg ==
    \E i \in 1..Len(form.subjectOptions) :
      form.subjectOptions[i] = form.values.subject /\ IsOrg(form.values.subject)

\* render: the disabled attribute of the submit button
SubmitDisabled ==
    ~(form.values.description # <<>> /\ form.values.query # <<>>
      /\ form.values.subject # "")
    \/ form.isSubmitting

\* render: the disabled attribute of the cancel button
CancelDisabled == form.isSubmitting

\* render: {error && !isSubmitting && (<div className="saved-query-form__error">
ErrorShown == form.error /\ ~form.isSubmitting

\* componentDidMount: configurationCascade delivers the subjects.
configurationCascadeNext ==
    /\ form.mounted
    /\ \E subjects \in SubjectLists :
         form' = [form EXCEPT
                    !.subjectOptions = subjects,
                    !.values.subject =
                       IF form.values.subject # "" THEN form.values.subject
                       ELSE subjects[1]]
    /\ UNCHANGED <<world, cache, mu, thr>>

\* componentDidMount: a keydown on the window; Escape cancels unless an
\* input has the focus or a submission has been started.
keydown ==
    /\ form.mounted
    /\ \E key \in {"Escape", "Enter"} :
         form' = IF ~form.isFocused /\ key = "Escape" /\ ~form.isSubmitting
                 THEN [form EXCEPT !.didCancel = TRUE]
                 ELSE form
    /\ UNCHANGED <<world, cache, mu, thr>>

\* The close button: onClick={onDidCancel}
clickClose ==
    /\ form.mounted
    /\ form' = [form EXCEPT !.didCancel = TRUE]
    /\ UNCHANGED <<world, cache, mu, thr>>

\* The cancel button: disabled={isSubmitting} onClick={onDidCancel}
clickCancel ==
    /\ form.mounted /\ ~CancelDisabled
    /\ form' = [form EXCEPT !.didCancel = TRUE]
    /\ UNCHANGED <<world, cache, mu, thr>>

\* handleSubmit, run by the submit button
handleSubmit ==
    /\ form.mounted /\ ~SubmitDisabled
    /\ form' = [form EXCEPT !.isSubmitting = TRUE, !.sub = "pending"]
    /\ UNCHANGED <<world, cache, mu, thr>>

\* The observable of onSubmit emits: subscribe(this.props.onDidCommit)
onSubmitNext ==
    /\ form.mounted /\ form.sub = "pending"
    /\ form' = [form EXCEPT !.didCommit = TRUE]
    /\ UNCHANGED <<world, cache, mu, thr>>

\* The observable of onSubmit completes.
onSubmitComplete ==
    /\ form.mounted /\ form.sub = "pending"
    /\ form' = [form EXCEPT !.sub = "completed"]
    /\ UNCHANGED <<world, cache, mu, thr>>

\* The observable of onSubmit fails: catchError sets the error and goes on
\* with an empty observable, which completes without a call of onDidCommit.
onSubmitError ==
    /\ form.mounted /\ form.sub = "pending"
    /\ form' = [form EXCEPT !.error = TRUE, !.sub = "failed"]
    /\ UNCHANGED <<world, cache, mu, thr>>

handleInputFocus ==
    /\ form.mounted
    /\ form' = [form EXCEPT !.isFocused = TRUE]
    /\ UNCHANGED <<world, cache, mu, thr>>

handleInputBlur ==
    /\ form.mounted
    /\ form' = [form EXCEPT !.isFocused = FALSE]
    /\ UNCHANGED <<world, cache, mu, thr>>

handleQueryChange ==
    /\ form.mounted
    /\ \E newQuery \in Queries :
         LET newValues == [form.values EXCEPT !.query = newQuery] IN
         form' = [form EXCEPT
                    !.values = newValues,
                    !.sawUnsupportedNotifyQueryWarning =
                       form.sawUnsupportedNotifyQueryWarning
                       \/ isUnsupportedNotifyQuery(newValues)]
    /\ UNCHANGED <<world, cache, mu, thr>>

\* createInputChangeHandler(key): the handler of one input
InputChange(key, value) ==
    /\ form.mounted
    /\ form' = [form EXCEPT !.values[key] = value]
    /\ UNCHANGED <<world, cache, mu, thr>>

handleDescriptionChange == \E v \in Descriptions : InputChange("description", v)

\* The radio buttons of the subjects that have arrived.
handleSubjectChange ==
    \E i \in 1..Len(form.subjectOptions) :
      InputChange("subject", form.subjectOptions[i])

handleShowOnHomeChange == \E v \in BOOLEAN : InputChange("showOnHomepage", v)

handleNotifyChange == \E v \in BOOLEAN : InputChange("notify", v)

\* The Slack checkbox: disabled={!savingToOrg}
handleNotifySlackChange ==
    savingToOrg /\ \E v \in BOOLEAN : InputChange("notifySlack", v)

\* componentWillUnmount: the parent takes the form off the page; the
\* subscriptions end.
componentWillUnmount ==
    /\ form.mounted
    /\ form' = [form EXCEPT !.mounted = FALSE,
                            !.sub = IF form.sub = "pending" THEN "unsubscribed"
                                    ELSE form.sub]
    /\ UNCHANGED <<world, cache, mu, thr>>

InitForm ==
    /\ world = World("git", "set", "empty", "none")
    /\ cache = <<>>
    /\ mu = 0
    /\ thr = <<>>
    /\ form \in {NewForm(d) : d \in DefaultValues}

NextForm ==
    \/ configurationCascadeNext
    \/ keydown
    \/ clickClose
    \/ clickCancel
    \/ handleSubmit
    \/ onSubmitNext
    \/ onSubmitComplete
    \/ onSubmitError
    \/ handleInputFocus
    \/ handleInputBlur
    \/ handleQueryChange
    \/ handleDescriptionChange
    \/ handleSubjectChange
    \/ handleShowOnHomeChange
    \/ handleNotifyChange
    \/ handleNotifySlackChange
    \/ componentWillUnmount

SpecForm == InitForm /\ [][NextForm]_vars

\* The observable of a submission ends, and the parent takes a form off the
\* page once it has been told that the form is done with.
SubmissionEnds == onSubmitComplete \/ onSubmitError

ParentCloses == (form.didCommit \/ form.didCancel) /\ componentWillUnmount

SpecFormFair == SpecForm /\ WF_vars(SubmissionEnds) /\ WF_vars(ParentCloses)

----------------------------------------------------------------------------
(* The properties                                                           *)

Threads == DOMAIN thr

\* A request that has gone past its entry point.
Entered(t) == thr[t].pc \notin {"idle", "called"}

Done(t) == thr[t].pc = "done"

\* The path that ReadDir, Lstat hand to lsTree for the request of t.
ListedPath(t) ==
    IF thr[t].op = "ReadDir" THEN ReadDirPath(thr[t].path)
    ELSE Clean(Rel(thr[t].path))

ToolEvents == {"ls-tree", "config", "show"}
CacheEvents == {"cache.Get", "cache.Add"}

\* C1: Lstat, Stat and ReadDir check the commit before anything else: a
\* request whose commit the guard rejects ends with UnsafeArgumentError, and
\* all it has done is that one check: no run of the tool, no read and no
\* write of the cache.
C1_CommitGuardFirst ==
    \A t \in Threads :
      (Entered(t) /\ ~checkSpecArgSafety(thr[t].commit)) =>
        /\ Done(t)
        /\ thr[t].kind = "UnsafeArgument"
        /\ thr[t].fis = <<>>
        /\ thr[t].tr = <<GuardFail(thr[t].commit)>>
        /\ \A i \in 1..Len(thr[t].tr) :
             thr[t].tr[i].ev \notin ToolEvents \cup CacheEvents

\* A recursive listing of the root, the request the cache serves, was
\* rejected for its commit.
C1_Witness ==
    \E t \in Threads :
      /\ Done(t) /\ thr[t].op = "ReadDir" /\ thr[t].recurse
      /\ thr[t].path = <<>> /\ thr[t].commit = CommitDash
      /\ thr[t].kind = "UnsafeArgument"

\* C2: every run of ls-tree is directly preceded by a passed check of the
\* very path string it is run on, the content of a symbolic link included;
\* every check records what the guard says of its string, and a failed check
\* ends the request with UnsafeArgumentError, with no run of ls-tree on the
\* rejected string.
C2_PathGuardBeforeTool ==
    \A t \in Threads :
      LET tr == thr[t].tr IN
      /\ \A k \in 1..Len(tr) :
           tr[k].ev = "ls-tree" =>
             /\ k > 1
             /\ tr[k - 1] = GuardOk(tr[k].arg)
             /\ checkSpecArgSafety(tr[k].arg)
      /\ \A j \in 1..Len(tr) :
           tr[j].ev = "guard" =>
             /\ tr[j].ok = checkSpecArgSafety(tr[j].arg)
             /\ ~tr[j].ok =>
                  /\ Done(t) /\ thr[t].kind = "UnsafeArgument"
                  /\ j = Len(tr)
                  /\ \A k \in 1..Len(tr) :
                       ~(tr[k].ev = "ls-tree" /\ tr[k].arg = tr[j].arg)

\* Stat has read a symbolic link whose content the guard rejects: the link
\* itself was listed, its content was checked and not listed.
C2_Witness ==
    \E t \in Threads :
      LET tr == thr[t].tr IN
      /\ Done(t) /\ thr[t].op = "Stat" /\ thr[t].kind = "UnsafeArgument"
      /\ checkSpecArgSafety(thr[t].commit)
      /\ \E i, j \in 1..Len(tr) :
           /\ i < j
           /\ tr[i].ev = "show" /\ tr[i].ok
           /\ tr[j].ev = "guard" /\ ~tr[j].ok /\ tr[j].arg = <<"-", "x">>
      /\ \E k \in 1..Len(tr) : tr[k].ev = "ls-tree" /\ tr[k].arg = <<"l", "d">>

ShownFor(t) ==
    SelectShown(TreeOf(thr[t].repo, thr[t].commit), ListedPath(t),
                thr[t].op = "ReadDir" /\ thr[t].recurse)

SeqToSet(s) == {s[i] : i \in 1..Len(s)}

HasEvent(t, ev) == \E k \in 1..Len(thr[t].tr) : thr[t].tr[k].ev = ev

\* C4: the entries of every successful ReadDir are in strictly increasing
\* byte-wise order of name, so no two of them have the same name.
C4_StrictlySorted ==
    \A t \in Threads :
      (Done(t) /\ thr[t].op = "ReadDir" /\ thr[t].kind = "ok") =>
        \A i \in 1..(Len(thr[t].fis) - 1) :
          StrLess(thr[t].fis[i].Name_, thr[t].fis[i + 1].Name_)

\* C5: ReadDir returns what the uncached lister returns for the same
\* arguments, whatever requests ran before or run beside it; so two requests
\* with the same arguments have the same result, hit or miss.
C5_CacheTransparent ==
    /\ \A t \in Threads :
         (Done(t) /\ thr[t].op = "ReadDir" /\ checkSpecArgSafety(thr[t].commit)) =>
           \E un \in {lsTreeUncached(thr[t].repo, thr[t].commit,
                                     ReadDirPath(thr[t].path), thr[t].recurse)} :
             /\ thr[t].kind = un.kind
             /\ thr[t].fis = un.fis
    /\ \A t, u \in Threads :
         (/\ Done(t) /\ Done(u)
          /\ thr[t].op = "ReadDir" /\ thr[u].op = "ReadDir"
          /\ thr[t].repo = thr[u].repo /\ thr[t].commit = thr[u].commit
          /\ thr[t].path = thr[u].path /\ thr[t].recurse = thr[u].recurse) =>
           thr[t].kind = thr[u].kind /\ thr[t].fis = thr[u].fis

\* Two listings are stored, and a request for the second repository was
\* served from the cache while the other thread, with the same arguments,
\* listed uncached.
C5_Witness ==
    /\ Len(cache) = 2
    /\ \E t, u \in Threads :
         /\ t # u /\ Done(t) /\ Done(u)
         /\ thr[t].hit /\ ~thr[u].hit
         /\ thr[t].repo = RepoR2 /\ thr[u].repo = RepoR2
         /\ thr[t].commit = CommitB /\ thr[u].commit = CommitB
         /\ thr[t].op = "ReadDir" /\ thr[u].op = "ReadDir"
         /\ thr[t].path = <<>> /\ thr[u].path = <<>>
         /\ thr[t].recurse /\ thr[u].recurse
         /\ thr[t].kind = "ok" /\ thr[u].kind = "ok"

\* The content of the link object at path p.
LinkContent(repo, commit, p) ==
    LET tree == TreeOf(repo, commit) IN
    tree[CHOOSE i \in 1..Len(tree) : tree[i].path = p].link

\* The entry Lstat gives for the path of the Stat request of t is a link.
LstatIsLink(l) == l.kind = "ok" /\ l.fis[1].Mode_ \cap ModeSymlink # {}

\* The result of Lstat of the content of the link at the path of t.
LstatOfTarget(t) ==
    Lstat(thr[t].repo, thr[t].commit,
          LinkContent(thr[t].repo, thr[t].commit, Clean(Rel(thr[t].path))))

\* C6 as stated: for every path that Lstat gives as a symbolic link, Stat
\* returns an entry, with the name of the entry of the requested path and
\* the mode and size of Lstat of the link's content; for every path that
\* Lstat gives as an entry that is no link, Stat returns that entry.
C6_StatReturnsEntry ==
    \A t \in Threads :
      (Done(t) /\ thr[t].op = "Stat" /\ checkSpecArgSafety(thr[t].commit)) =>
        \E l \in {Lstat(thr[t].repo, thr[t].commit, thr[t].path)} :
          l.kind = "ok" =>
            IF LstatIsLink(l)
            THEN /\ thr[t].kind = "ok"
                 /\ Len(thr[t].fis) = 1
                 /\ thr[t].fis[1].Name_ = l.fis[1].Name_
                 /\ \E target \in {LstatOfTarget(t)} :
                      /\ target.kind = "ok"
                      /\ thr[t].fis[1].Mode_ = target.fis[1].Mode_
                      /\ thr[t].fis[1].Size_ = target.fis[1].Size_
            ELSE thr[t].kind = "ok" /\ thr[t].fis = l.fis

\* C6 (amended): where Lstat of the path gives a symbolic link, Stat gives
\* what Lstat of the link's content gives: its error when it fails, else an
\* entry with its mode and size under the name of the entry of the requested
\* path; where Lstat gives an entry that is not a symbolic link, Stat gives
\* exactly that entry.
C6_StatFollowsLink ==
    \A t \in Threads :
      (Done(t) /\ thr[t].op = "Stat" /\ checkSpecArgSafety(thr[t].commit)) =>
        \E l \in {Lstat(thr[t].repo, thr[t].commit, thr[t].path)} :
          l.kind = "ok" =>
            IF LstatIsLink(l)
            THEN \E target \in {LstatOfTarget(t)} :
                   /\ thr[t].kind = target.kind
                   /\ target.kind = "ok" =>
                        /\ Len(thr[t].fis) = 1
                        /\ thr[t].fis[1].Name_ = l.fis[1].Name_
                        /\ thr[t].fis[1].Mode_ = target.fis[1].Mode_
                        /\ thr[t].fis[1].Size_ = target.fis[1].Size_
            ELSE thr[t].kind = "ok" /\ thr[t].fis = l.fis

\* Stat of the link l to a/b.txt: the name of the link, the mode and the size
\* of the file.
C6_Witness ==
    \E t \in Threads :
      /\ Done(t) /\ thr[t].op = "Stat" /\ thr[t].kind = "ok"
      /\ thr[t].repo = RepoR1 /\ thr[t].commit = CommitA
      /\ thr[t].path = <<"l">>
      /\ thr[t].fis[1].Name_ = <<"l">>
      /\ thr[t].fis[1].Size_ = 10
      /\ thr[t].fis[1].Mode_ \cap ModeSymlink = {}

CommitEntries(es) == {i \in 1..Len(es) : es[i].typ = TypCommit}

\* C7: with a sound ls-tree, a listing succeeds with one entry per record
\* whatever the url query does; the entries with submodule info are as many
\* as the records of type commit, have the submodule mode and the object id
\* of a commit record, and an empty url when the query failed or printed
\* nothing; a failed query never makes Lstat, Stat or ReadDir fail.
C7_SubmoduleEntries ==
    \A t \in Threads :
      (Done(t) /\ world.corrupt = "none") =>
        /\ HasEvent(t, "config") => thr[t].kind = "ok"
        /\ \A i \in 1..Len(thr[t].fis) :
             LET fi == thr[t].fis[i] IN
             IF fi.Sys_ # NoSys
             THEN /\ ModeSubmodule \subseteq fi.Mode_
                  /\ \E e \in SeqToSet(TreeOf(thr[t].repo, thr[t].commit)) :
                       e.typ = TypCommit /\ e.oid = fi.Sys_[1].CommitID
                  /\ world.url \in {"fail", "empty"} => fi.Sys_[1].URL = <<>>
             ELSE ~(ModeSubmodule \subseteq fi.Mode_)
        /\ (/\ thr[t].op = "ReadDir"
            /\ checkSpecArgSafety(thr[t].commit)
            /\ ShownFor(t) # <<>>) =>
             /\ thr[t].kind = "ok"
             /\ Len(thr[t].fis) = Len(ShownFor(t))
             /\ Cardinality({i \in 1..Len(thr[t].fis) : thr[t].fis[i].Sys_ # NoSys})
                  = Cardinality(CommitEntries(ShownFor(t)))

\* The url query fails, and the recursive listing of the root has all its
\* entries, the submodule with an empty url.
C7_Witness ==
    \E t \in Threads :
      /\ Done(t) /\ thr[t].op = "ReadDir" /\ thr[t].kind = "ok"
      /\ world.url = "fail"
      /\ thr[t].path = <<>> /\ thr[t].recurse
      /\ Len(thr[t].fis) = Len(TreeA)
      /\ \E k \in 1..Len(thr[t].tr) :
           thr[t].tr[k].ev = "config" /\ ~thr[t].tr[k].ok
      /\ \E i \in 1..Len(thr[t].fis) :
           thr[t].fis[i].Sys_ = SubmoduleInfo(<<>>, Oid("7"))

\* The records of an output: what stands before each NUL, and after the last
\* one if anything does.
RecordsOf(out) ==
    LET pieces == Split(out, NUL) IN
    IF pieces[Len(pieces)] = <<>> THEN SliceTo(pieces, Len(pieces) - 1)
    ELSE pieces

\* The fields of a metadata block: its maximal runs of bytes other than space.
FieldsOf(block) == SelectSeq(Split(block, " "), LAMBDA f : f # <<>>)

FullHexId(s) == Len(s) = OidLen /\ \A i \in 1..Len(s) : s[i] \in HexDigits

SizeFieldOk(s) ==
    \/ s = <<"-">>
    \/ s # <<>> /\ \A i \in 1..Len(s) : IsDigitOf(s[i], 10)

\* A record that the lister has to refuse.
BadRecord(r) ==
    LET tab == IndexByte(r, TAB)
        fields == FieldsOf(SliceTo(r, tab))
    IN  \/ tab = -1
        \/ Len(fields) # 4
        \/ ~FullHexId(fields[3])
        \/ ~SizeFieldOk(fields[4])

\* C8: a listing whose output has a record without tab, without exactly four
\* fields before the tab, with an object id that is not a full hexadecimal
\* id, or with a size that is neither "-" nor a non-negative decimal number,
\* fails with MalformedOutputError and no entries; no entry has a negative
\* size.
C8_MalformedRefused ==
    \A t \in Threads :
      Done(t) =>
        /\ \A i \in 1..Len(thr[t].fis) : thr[t].fis[i].Size_ >= 0
        /\ (/\ thr[t].op \in {"ReadDir", "Lstat"}
            /\ \E k \in 1..Len(thr[t].tr) :
                 thr[t].tr[k].ev = "ls-tree" /\ thr[t].tr[k].resp = "records") =>
             \E run \in {GitLsTree(thr[t].repo, thr[t].commit,
                                   thr[t].op = "ReadDir" /\ thr[t].recurse,
                                   ListedPath(t))} :
               (\E r \in SeqToSet(RecordsOf(run.out)) : BadRecord(r)) =>
                 thr[t].kind = "MalformedOutput" /\ thr[t].fis = <<>>

\* C9: the names of a listing of the root are the full relative paths of the
\* records; the names of a listing of any other path, recursive or not, have
\* no '/'.
C9_EntryNames ==
    \A t \in Threads :
      (/\ Done(t) /\ thr[t].op = "ReadDir" /\ thr[t].kind = "ok"
       /\ world.corrupt = "none") =>
        IF ListedPath(t) = <<>>
        THEN /\ Len(thr[t].fis) = Len(ShownFor(t))
             /\ {thr[t].fis[i].Name_ : i \in 1..Len(thr[t].fis)}
                  = {e.path : e \in SeqToSet(ShownFor(t))}
        ELSE TrimPrefix(ListedPath(t), <<".", "/">>) # <<>> =>
               \A i \in 1..Len(thr[t].fis) :
                 ~Contains(thr[t].fis[i].Name_, <<"/">>)

CachePairs == {<<cache[i].key, cache[i].val>> : i \in 1..Len(cache)}

\* A request that lsTree serves through the cache.
RootRecursive(t) ==
    thr[t].op = "ReadDir" /\ thr[t].path = <<>> /\ thr[t].recurse

\* The step that may change what the cache stores: the Add of a recursive
\* listing of the root that missed, succeeded, took more than
\* CacheMinElapsedMs and has more than EntriesThreshold entries.
AdmittedAdd ==
    \E t \in Threads :
      /\ thr[t].pc = "add" /\ thr'[t].pc = "unlockAdd"
      /\ RootRecursive(t)
      /\ ~thr[t].hit
      /\ thr[t].elapsed > CacheMinElapsedMs
      /\ Len(thr[t].fis) > EntriesThreshold
      /\ \E un \in {lsTreeUncached(thr[t].repo, thr[t].commit, <<>>, TRUE)} :
           un.kind = "ok" /\ un.fis = thr[t].fis
      /\ <<thr[t].key, thr[t].fis>> \in CachePairs'

\* What the requests that must not store have done.
NoCacheUse ==
    \A t \in Threads :
      /\ (Entered(t) /\ ~RootRecursive(t)) =>
           ~HasEvent(t, "cache.Get") /\ ~HasEvent(t, "cache.Add")
      /\ (/\ Done(t) /\ RootRecursive(t) /\ ~thr[t].hit
          /\ \/ thr[t].kind # "ok"
             \/ thr[t].elapsed <= CacheMinElapsedMs
             \/ Len(thr[t].fis) <= EntriesThreshold) =>
           ~HasEvent(t, "cache.Add")

\* C10: the pairs the cache stores change only by the Add of an admitted
\* listing (root, recursive, missed, succeeded, slower than the time
\* threshold, longer than the entry threshold); a request for a path or
\* without recursion never looks up or writes the cache, and a listing of the
\* root that fails, is quick or is short is returned without being stored.
C10_CacheAdmission ==
    /\ []NoCacheUse
    /\ [][CachePairs' # CachePairs => AdmittedAdd]_vars

\* A listing was stored by one thread while the other has finished a listing
\* of the root that was too quick to be stored.
C10_Witness ==
    \E t, u \in Threads :
      /\ Done(t) /\ HasEvent(t, "cache.Add") /\ RootRecursive(t)
      /\ <<thr[t].key, thr[t].fis>> \in CachePairs
      /\ thr[t].elapsed > CacheMinElapsedMs
      /\ Len(thr[t].fis) > EntriesThreshold
      /\ Done(u) /\ RootRecursive(u) /\ ~thr[u].hit /\ thr[u].kind = "ok"
      /\ thr[u].elapsed = CacheMinElapsedMs
      /\ thr[u].key # thr[t].key
      /\ ~HasEvent(u, "cache.Add")

\* The positions at which a thread holds lsTreeRootCacheMu.
HoldsMutex(t) == thr[t].pc \in {"get", "unlock", "add", "unlockAdd"}

\* The step of the holder of the mutex that does not wait for anything.
HolderStep(t) == CacheGet(t) \/ UnlockGet(t) \/ CacheAdd(t) \/ UnlockAdd(t)

\* C11: the mutex is held exactly from the Lock before a lookup or an insert
\* to the Unlock after it, never by a thread whose uncached listing is in
\* progress; whoever holds it can take its next step, so a thread that waits
\* for the mutex while another lists is never blocked by the lister, and no
\* state is stuck on the mutex.
C11_MutexOnlyAroundCacheOps ==
    /\ mu \in {0} \cup Threads
    /\ \A t \in Threads :
         /\ (mu = t) <=> HoldsMutex(t)
         /\ thr[t].pc \in {"miss", "listing"} => mu # t
         /\ mu = t => ENABLED HolderStep(t)
         /\ (thr[t].pc \in {"lock", "lockAdd"} /\ mu = 0) =>
              ENABLED (LockGet(t) \/ LockAdd(t))

\* One thread is in its uncached listing while the other holds the mutex for
\* its lookup.
C11_Witness ==
    \E t, u \in Threads :
      /\ thr[t].pc = "listing"
      /\ thr[u].pc = "get" /\ mu = u

\* C12: a request for the recursive listing of the root runs its own uncached
\* listing exactly when its own lookup missed, whatever the other threads do:
\* after a miss the listing starts without waiting, whether or not another
\* thread lists or inserts for the same key, and a finished request has run ls-tree
\* if and only if its lookup was a miss.
C12_MissesNotCoalesced ==
    \A t \in Threads :
      /\ thr[t].pc = "miss" => ENABLED StartList(t)
      /\ (RootRecursive(t) /\ thr[t].pc \in {"lockAdd", "add", "unlockAdd"}) =>
           ~thr[t].hit /\ HasEvent(t, "ls-tree")
      /\ (Done(t) /\ RootRecursive(t) /\ checkSpecArgSafety(thr[t].commit)) =>
           /\ HasEvent(t, "cache.Get")
           /\ thr[t].hit <=> ~HasEvent(t, "ls-tree")

\* Two requests with the same key both missed, both listed and both inserted.
C12_Witness ==
    \E t, u \in Threads :
      /\ t # u /\ Done(t) /\ Done(u)
      /\ RootRecursive(t) /\ RootRecursive(u)
      /\ thr[t].key = thr[u].key
      /\ ~thr[t].hit /\ ~thr[u].hit
      /\ HasEvent(t, "ls-tree") /\ HasEvent(u, "ls-tree")
      /\ HasEvent(t, "cache.Add") /\ HasEvent(u, "cache.Add")

\* The elements of the split of an output at NUL that are not empty.
NonEmptyElements(out) ==
    LET pieces == Split(out, NUL) IN
    {i \in 1..Len(pieces) : pieces[i] # <<>>}

\* C13: a successful uncached listing has exactly one entry per non-empty
\* element of the split of the tool's output at NUL, whether or not the
\* output ends with a NUL.
C13_OneEntryPerRecord ==
    \A t \in Threads :
      (/\ Done(t) /\ thr[t].op = "ReadDir" /\ thr[t].kind = "ok"
       /\ \E k \in 1..Len(thr[t].tr) :
            thr[t].tr[k].ev = "ls-tree" /\ thr[t].tr[k].resp = "records") =>
        \E run \in {GitLsTree(thr[t].repo, thr[t].commit, thr[t].recurse,
                              ListedPath(t))} :
          Len(thr[t].fis) = Cardinality(NonEmptyElements(run.out))

\* The queried path without a leading "./", and the index names are cut at.
TrimPathOf(t) == TrimPrefix(ListedPath(t), <<".", "/">>)
PrefixLenOf(t) == LastIndexByte(TrimPathOf(t), "/") + 1

\* The paths of the records of an output that are followed by a NUL: what
\* stands after the tab.
RecordPaths(out) ==
    LET pieces == Split(out, NUL) IN
    {SliceFrom(r, IndexByte(r, TAB) + 1) :
       r \in {x \in SeqToSet(SliceTo(pieces, Len(pieces) - 1)) :
                IndexByte(x, TAB) # -1}}

\* C15: no request ends in a slice out of bounds: for every record that a
\* listing parses the index the name is cut at is at most the length of the string
\* that is cut, which is the queried path where the record's path is shorter
\* than it; the entry of such a record is named by the last segment of the
\* queried path.
C15_NameSliceInBounds ==
    \A t \in Threads :
      /\ thr[t].kind # "panic"
      /\ (/\ Done(t) /\ thr[t].op \in {"ReadDir", "Lstat"}
          /\ \E k \in 1..Len(thr[t].tr) :
               thr[t].tr[k].ev = "ls-tree" /\ thr[t].tr[k].resp = "records") =>
           \E run \in {GitLsTree(thr[t].repo, thr[t].commit,
                                 thr[t].op = "ReadDir" /\ thr[t].recurse,
                                 ListedPath(t))} :
             \A p \in RecordPaths(run.out) :
               IF Len(p) < Len(TrimPathOf(t))
               THEN /\ PrefixLenOf(t) <= Len(TrimPathOf(t))
                    /\ thr[t].kind = "ok" =>
                         \E i \in 1..Len(thr[t].fis) :
                           thr[t].fis[i].Name_
                             = SliceFrom(TrimPathOf(t), PrefixLenOf(t))
               ELSE PrefixLenOf(t) <= Len(p)

\* Lstat of a path inside the submodule s: the tool prints the record of s,
\* which is shorter than the queried path, and the entry is named x.
C15_Witness ==
    \E t \in Threads :
      /\ Done(t) /\ thr[t].op = "Lstat" /\ thr[t].kind = "ok"
      /\ thr[t].path = <<"s", "/", "x">>
      /\ thr[t].fis[1].Name_ = <<"x">>
      /\ \E k \in 1..Len(thr[t].tr) :
           thr[t].tr[k].ev = "ls-tree" /\ thr[t].tr[k].resp = "records"

CountEvents(t, ev) ==
    Cardinality({k \in 1..Len(thr[t].tr) : thr[t].tr[k].ev = ev})

RootEntry == FileInfo(<<>>, ModeDir, 0, NoSys)

\* C18: Lstat of a path that normalizes to "." returns the synthetic
\* directory entry and does nothing but the check of the commit: no run of
\* the tool, no use of the cache.  Lstat of any other path calls lsTree once,
\* without recursion and outside the cache, for the normalized path, and
\* returns its error, a not-found error when it has no entries, and else its
\* first entry.
C18_LstatRootAndFirstEntry ==
    \A t \in Threads :
      (Done(t) /\ thr[t].op = "Lstat" /\ checkSpecArgSafety(thr[t].commit)) =>
        LET p == Clean(Rel(thr[t].path)) IN
        /\ ~HasEvent(t, "cache.Get") /\ ~HasEvent(t, "cache.Add")
        /\ IF p = <<".">>
           THEN /\ thr[t].kind = "ok"
                /\ thr[t].fis = <<RootEntry>>
                /\ thr[t].tr = <<GuardOk(thr[t].commit)>>
           ELSE /\ CountEvents(t, "lsTree") = 1
                /\ \A k \in 1..Len(thr[t].tr) :
                     /\ thr[t].tr[k].ev = "lsTree" =>
                          /\ thr[t].tr[k].arg = p
                          /\ thr[t].tr[k].resp = "uncached"
                     /\ thr[t].tr[k].ev = "ls-tree" => thr[t].tr[k].arg = p
                /\ CountEvents(t, "ls-tree") <= 1
                /\ \E un \in {lsTreeUncached(thr[t].repo, thr[t].commit, p, FALSE)} :
                     IF un.kind # "ok"
                     THEN thr[t].kind = un.kind /\ thr[t].fis = <<>>
                     ELSE IF Len(un.fis) = 0
                     THEN thr[t].kind = "NotFound" /\ thr[t].fis = <<>>
                     ELSE thr[t].kind = "ok" /\ thr[t].fis = <<un.fis[1]>>

\* Lstat of "./" has returned the root entry.
C18_Witness ==
    \E t \in Threads :
      /\ Done(t) /\ thr[t].op = "Lstat" /\ thr[t].path = <<".", "/">>
      /\ thr[t].commit = CommitA
      /\ thr[t].kind = "ok" /\ thr[t].fis = <<RootEntry>>
      /\ thr[t].tr = <<GuardOk(CommitA)>>

\* C20: Stat reads at most one link and resolves at most two paths, so it
\* ends in one call whatever the links are; where the content of the link
\* resolves to a link again, Stat returns the entry of that second link, in
\* symlink mode, under the name of the entry of the requested path.
C20_StatOneLevel ==
    \A t \in Threads :
      thr[t].op = "Stat" =>
        /\ Entered(t) => Done(t)
        /\ CountEvents(t, "show") <= 1
        /\ CountEvents(t, "lsTree") <= 2
        /\ CountEvents(t, "ls-tree") <= 2
        /\ (Done(t) /\ checkSpecArgSafety(thr[t].commit)) =>
             \E l \in {Lstat(thr[t].repo, thr[t].commit, thr[t].path)} :
               LstatIsLink(l) =>
                 \E target \in {LstatOfTarget(t)} :
                   LstatIsLink(target) =>
                     /\ thr[t].kind = "ok"
                     /\ thr[t].fis
                          = <<[target.fis[1] EXCEPT !.Name_ = l.fis[1].Name_]>>
                     /\ thr[t].fis[1].Mode_ = ModeSymlink

\* Stat of p, where p -> q -> p: the entry of q under the name p.
C20_Witness ==
    \E t \in Threads :
      /\ Done(t) /\ thr[t].op = "Stat" /\ thr[t].path = <<"p">>
      /\ thr[t].kind = "ok"
      /\ thr[t].fis[1].Name_ = <<"p">>
      /\ thr[t].fis[1].Mode_ = ModeSymlink
      /\ CountEvents(t, "ls-tree") = 2
      /\ CountEvents(t, "show") = 1

\* The listing the cache stores for a key, <<>> for a key it does not hold.
StoredFor(c, key) ==
    IF \E i \in 1..Len(c) : c[i].key = key
    THEN c[CHOOSE i \in 1..Len(c) : c[i].key = key].val
    ELSE <<>>

CacheKeys == {cache[i].key : i \in 1..Len(cache)}

\* The last call of lsTree before position k of the trace of t went through
\* the cache.
FromCache(t, k) ==
    \E j \in 1..(k - 1) :
      /\ thr[t].tr[j].ev = "lsTree" /\ thr[t].tr[j].resp = "cache"
      /\ \A i \in (j + 1)..(k - 1) : thr[t].tr[i].ev # "lsTree"

NoRenameOfCached ==
    \A t \in Threads :
      \A k \in 1..Len(thr[t].tr) :
        thr[t].tr[k].ev = "rename" =>
          /\ thr[t].op = "Stat"
          /\ ~FromCache(t, k)
          /\ ~HasEvent(t, "cache.Get")

\* C17: Stat overwrites the name of an entry only if it comes from a call of
\* lsTree that did not go through the cache (or is the synthetic root entry),
\* and in no step does the listing stored for a key change while the key
\* stays in the cache.
C17_StoredListingsUnchanged ==
    /\ []NoRenameOfCached
    /\ [][\A key \in CacheKeys \cap CacheKeys' :
            StoredFor(cache', key) = StoredFor(cache, key)]_vars

\* A listing is stored and Stat has renamed the entry of the target of a link.
C17_Witness ==
    /\ cache # <<>>
    /\ \E t \in Threads :
         /\ Done(t) /\ thr[t].op = "Stat" /\ thr[t].kind = "ok"
         /\ HasEvent(t, "rename")
         /\ thr[t].fis[1].Name_ = <<"l">>

\* The bits of a mode read from its octal digits: digit i from the right
\* (from 0) gives the bits 3i, 3i+1 and 3i+2.
OctalBits(ds) ==
    {b \in 0..(3 * Len(ds) - 1) :
       (Digit(ds[Len(ds) - (b \div 3)]) \div Pow2(b % 3)) % 2 = 1}

\* os.ModeType and the tests of the four kinds of entry on the bits of a mode.
ModeType == {31, 27, 26, 25, 24, 21, 19}
IsRegular(m) == m \cap ModeType = {}
IsSymlink(m) == ModeSymlink \subseteq m
IsSubmodule(m) == ModeSubmodule \subseteq m
IsDir(m) == ModeDir \subseteq m

KindsOf(m) ==
    {k \in {"regular", "symlink", "submodule", "directory"} :
       \/ k = "regular" /\ IsRegular(m)
       \/ k = "symlink" /\ IsSymlink(m)
       \/ k = "submodule" /\ IsSubmodule(m)
       \/ k = "directory" /\ IsDir(m)}

\* The entry Lstat returned for the record of s, whose mode and type the
\* world gives.
ModeCase(t) ==
    /\ Done(t) /\ thr[t].op = "Lstat" /\ thr[t].kind = "ok"
    /\ world.corrupt = "setmode"

\* The mode of the entry is the translation of the mode of the record.
Translated(t) ==
    LET m == OctalBits(world.mode)
        got == thr[t].fis[1].Mode_
    IN  /\ (world.typ = TypBlob /\ 13 \in m) => got = {27}
        /\ (world.typ = TypBlob /\ 13 \notin m) => got = m \cup {8, 7, 5, 2}
        /\ world.typ = TypCommit => got = m \cup {26, 15, 14, 13}
        /\ world.typ = TypTree => got = m \cup {31}

\* The one kind an entry of this type has to be.
ExpectedKind ==
    IF world.typ = TypTree THEN "directory"
    ELSE IF world.typ = TypCommit THEN "submodule"
    ELSE IF 13 \in OctalBits(world.mode) THEN "symlink"
    ELSE "regular"

\* C14 as stated: for every octal mode, the mode of the entry is the
\* translation of the record's mode by its type, and the entry is of exactly
\* one of the four kinds.
C14_ModeExactlyOneKind ==
    \A t \in Threads :
      ModeCase(t) =>
        /\ Translated(t)
        /\ KindsOf(thr[t].fis[1].Mode_) = {ExpectedKind}

\* C14 (amended): for every octal mode, the mode of the entry is the
\* translation of the record's mode by its type (symlink; mode OR 0644; mode
\* OR submodule; mode OR directory); for a mode of at most six octal digits,
\* as git prints, the entry is of exactly one of the four kinds.
C14_ModeTranslation ==
    \A t \in Threads :
      ModeCase(t) =>
        /\ Translated(t)
        /\ Len(world.mode) <= 6 =>
             KindsOf(thr[t].fis[1].Mode_) = {ExpectedKind}

\* A blob of mode 100755 became a regular file of mode 100755 | 0644.
C14_Witness ==
    \E t \in Threads :
      /\ ModeCase(t)
      /\ world.typ = TypBlob
      /\ world.mode = <<"1", "0", "0", "7", "5", "5">>
      /\ thr[t].fis[1].Mode_ = {15, 8, 7, 6, 5, 3, 2, 0}
      /\ KindsOf(thr[t].fis[1].Mode_) = {"regular"}

\* C19: a request served from the cache gets a listing that the uncached
\* lister computes for its own repository and its own commit, also where the
\* repository or the commit string holds a ':'.
C19_HitIsOwnListing ==
    \A t \in Threads :
      (Done(t) /\ RootRecursive(t) /\ thr[t].hit) =>
        \E un \in {lsTreeUncached(thr[t].repo, thr[t].commit, <<>>, TRUE)} :
          un.kind = "ok" /\ un.fis = thr[t].fis

\* The keys of a cache, most recently used first.
KeyOrder(c) == [i \in 1..Len(c) |-> c[i].key]

\* The order of use after key k has been used.
UsedFirst(order, k) == <<k>> \o SelectSeq(order, LAMBDA x : x # k)

\* At most lsTreeRootCacheSize keys, the least recently used dropped.
Kept(order) ==
    IF Len(order) > lsTreeRootCacheSize
    THEN SubSeq(order, 1, lsTreeRootCacheSize) ELSE order

Getting(t) == thr[t].pc = "get" /\ thr'[t].pc = "unlock"

Adding(t) == thr[t].pc = "add" /\ thr'[t].pc = "unlockAdd"

CacheBounded ==
    /\ Len(cache) <= lsTreeRootCacheSize
    /\ \A i, j \in 1..Len(cache) : cache[i].key = cache[j].key => i = j

LruStep ==
    LET before == KeyOrder(cache)
        after == KeyOrder(cache')
        gone == CacheKeys \ {cache'[i].key : i \in 1..Len(cache')}
    IN  /\ \A t \in Threads :
             Getting(t) =>
               /\ thr'[t].hit = (thr[t].key \in CacheKeys)
               /\ after = IF thr'[t].hit THEN UsedFirst(before, thr[t].key)
                          ELSE before
        /\ \A t \in Threads :
             Adding(t) =>
               /\ after = Kept(UsedFirst(before, thr[t].key))
               /\ StoredFor(cache', thr[t].key) = thr[t].fis
        /\ (\A t \in Threads : ~Getting(t) /\ ~Adding(t)) => cache' = cache
        /\ \A k \in CacheKeys \ gone :
             \/ StoredFor(cache', k) = StoredFor(cache, k)
             \/ \E t \in Threads : Adding(t) /\ thr[t].key = k
        /\ gone # {} =>
             \E t \in Threads :
               /\ Adding(t)
               /\ thr[t].key \notin CacheKeys
               /\ Len(cache) = lsTreeRootCacheSize
               /\ gone = {before[lsTreeRootCacheSize]}

\* C16: the cache never holds more than lsTreeRootCacheSize listings nor two
\* listings for one key; a hit and an insert make their key the most recently
\* used one and leave the order of the others alone; a key leaves the cache
\* only when a new key is inserted into a full cache, and it is then the
\* least recently used key; no other step changes what is stored.
C16_LruCache == [](CacheBounded) /\ [][LruStep]_vars

\* An insert has evicted a key from the full cache.
C16_Witness ==
    \E t \in Threads :
      /\ Done(t) /\ Len(cache) = lsTreeRootCacheSize
      /\ \E k \in 1..Len(thr[t].tr) :
           thr[t].tr[k].ev = "cache.Add" /\ thr[t].tr[k].resp = "evicted"
      /\ cache[1].key = thr[t].key

\* Two threads have both inserted the same key.
C16_WitnessBothInsert ==
    \E t, u \in Threads :
      /\ t # u /\ Done(t) /\ Done(u) /\ thr[t].key = thr[u].key
      /\ HasEvent(t, "cache.Add") /\ HasEvent(u, "cache.Add")
      /\ Len(cache) = 1

\* The submission of the form has failed and the form is on the page.
SubmissionFailed == form.mounted /\ form.sub = "failed"

\* C21: isSubmitting is true only while a submission is in flight, and after
\* the observable of onSubmit has failed the form reaches a state in which
\* the error is set and isSubmitting is false, so that the error message is
\* shown and the submit and cancel buttons are no longer disabled by it.
C21_ErrorShownAfterFailure ==
    /\ [](form.mounted /\ form.isSubmitting => form.sub = "pending")
    /\ SubmissionFailed ~> (ErrorShown /\ ~CancelDisabled)

====
